---- MODULE Spec2Model ----
(***************************************************************************)
(* Model of src/uri.py: UriParser, a parser of URI references of the form  *)
(*     /path?param1=value&param2=value#fragment                            *)
(*                                                                         *)
(* A character is its code point (an integer), a Python str is a sequence  *)
(* of code points, and the insertion-ordered dict _query_params is a       *)
(* sequence of <<key, value>> pairs with pairwise distinct keys.           *)
(* parse() is one action: it runs _split_uri, _parse_path, _parse_fragment *)
(* and _parse_query in that order and stops at the first exception, which  *)
(* leaves the fields as the stages that ran wrote them.                    *)
(***************************************************************************)
EXTENDS Integers, Sequences, FiniteSets

VARIABLES
    uri_content,   \* self._uri_content
    path,          \* self._path
    fragment,      \* self._fragment
    query,         \* self._query
    query_params,  \* self._query_params
    iter,          \* self._iter
    calls,         \* the number of parse() calls made so far
    raised,        \* the exception that left the last parse() call
    stages,        \* the fields after each stage the last parse() call ran
    observed       \* what the caller read from the getters after each call

vars == <<uri_content, path, fragment, query, query_params, iter,
          calls, raised, stages, observed>>

---------------------------------------------------------------------------
(* Characters *)

COLON == 58
SLASH == 47
QMARK == 63
HASH == 35
LBRACKET == 91
RBRACKET == 93
AT == 64
BANG == 33
DOLLAR == 36
AMP == 38
APOSTROPHE == 39
LPAREN == 40
RPAREN == 41
STAR == 42
COMMA == 44
SEMICOLON == 59
EQUALS == 61
PERCENT == 37
PLUS == 43
MINUS == 45

\* self._reserved_chars
reserved_chars ==
    { COLON, SLASH, QMARK, HASH, LBRACKET, RBRACKET, AT,
      BANG, DOLLAR, AMP, APOSTROPHE, LPAREN, RPAREN, STAR,
      COMMA, SEMICOLON, EQUALS }

\* The value _get_next_char returns at the end of the string (no character
\* has a negative code point).
None == -1

\* The exceptions that can leave parse(); NoException is a normal return.
NoException == "none"
UriSyntaxError == "UriSyntaxError"
ValueError == "ValueError"

---------------------------------------------------------------------------
(* Python built-ins the parser uses *)

\* The characters int() strips from both ends of its argument, among the
\* code points 0..255.
IntWhitespace == {9, 10, 11, 12, 13, 32, 133, 160}

\* The value of one base-16 digit, None when c is not a hexadecimal digit.
HexDigitValue(c) ==
    IF c \in 48..57 THEN c - 48
    ELSE IF c \in 65..70 THEN c - 55
    ELSE IF c \in 97..102 THEN c - 87
    ELSE None

\* Mutation of IntBase16: the pair read in base 10, int(hex_num, 10).
IntBase10(hex_num) ==
    LET a == hex_num[1]
        b == hex_num[2]
        da == IF a \in 48..57 THEN a - 48 ELSE None
        db == IF b \in 48..57 THEN b - 48 ELSE None
        bad == [ok |-> FALSE, value |-> 0]
    IN  IF a \in IntWhitespace /\ b \in IntWhitespace THEN bad
        ELSE IF a \in IntWhitespace
             THEN IF db = None THEN bad ELSE [ok |-> TRUE, value |-> db]
        ELSE IF b \in IntWhitespace
             THEN IF da = None THEN bad ELSE [ok |-> TRUE, value |-> da]
        ELSE IF a = PLUS
             THEN IF db = None THEN bad ELSE [ok |-> TRUE, value |-> db]
        ELSE IF a = MINUS
             THEN IF db = None THEN bad ELSE [ok |-> TRUE, value |-> 0 - db]
        ELSE IF da = None \/ db = None THEN bad
        ELSE [ok |-> TRUE, value |-> 10 * da + db]

\* int(hex_num, 16) for a string of two characters: [ok, value]; ok is FALSE
\* where int raises ValueError.  int strips whitespace and accepts a sign.
IntBase16(hex_num) ==
    LET a == hex_num[1]
        b == hex_num[2]
        va == HexDigitValue(a)
        vb == HexDigitValue(b)
        bad == [ok |-> FALSE, value |-> 0]
    IN  IF a \in IntWhitespace /\ b \in IntWhitespace THEN bad
        ELSE IF a \in IntWhitespace
             THEN IF vb = None THEN bad ELSE [ok |-> TRUE, value |-> vb]
        ELSE IF b \in IntWhitespace
             THEN IF va = None THEN bad ELSE [ok |-> TRUE, value |-> va]
        ELSE IF a = PLUS
             THEN IF vb = None THEN bad ELSE [ok |-> TRUE, value |-> vb]
        ELSE IF a = MINUS
             THEN IF vb = None THEN bad ELSE [ok |-> TRUE, value |-> 0 - vb]
        ELSE IF va = None \/ vb = None THEN bad
        ELSE [ok |-> TRUE, value |-> 16 * va + vb]

\* str.find(c): the 0-based index of the first c in s, -1 when there is none.
RECURSIVE FindFrom(_, _, _)
FindFrom(s, c, i) ==
    IF i > Len(s) THEN -1
    ELSE IF s[i] = c THEN i - 1
    ELSE FindFrom(s, c, i + 1)

Find(s, c) == FindFrom(s, c, 1)

\* s.split(c, 1): one string when c does not occur, else the text before the
\* first c and the text after it.
Split1(s, c) ==
    LET k == Find(s, c)
    IN  IF k = -1 THEN <<s>>
        ELSE <<SubSeq(s, 1, k), SubSeq(s, k + 2, Len(s))>>

\* s.split(c): the pieces of s between the occurrences of c.
RECURSIVE Split(_, _)
Split(s, c) ==
    LET k == Find(s, c)
    IN  IF k = -1 THEN <<s>>
        ELSE <<SubSeq(s, 1, k)>> \o Split(SubSeq(s, k + 2, Len(s)), c)

\* s.count(c)
Count(s, c) == Cardinality({i \in 1..Len(s) : s[i] = c})

\* Mutation of DictSet: the first value of a key is kept
\* (d.setdefault(k, v)).
DictSetFirstWins(d, k, v) ==
    IF \E i \in 1..Len(d) : d[i][1] = k THEN d ELSE Append(d, <<k, v>>)

\* Mutation of DictSet: a list of pairs, appended to on every token.
DictSetAppend(d, k, v) == Append(d, <<k, v>>)

\* d[k] = v on an insertion-ordered dict: an existing key keeps its place.
DictSet(d, k, v) ==
    IF \E i \in 1..Len(d) : d[i][1] = k
    THEN [i \in 1..Len(d) |-> IF d[i][1] = k THEN <<k, v>> ELSE d[i]]
    ELSE Append(d, <<k, v>>)

---------------------------------------------------------------------------
(* UriParser *)

\* _get_next_char(string) with self._iter = it: the character returned and
\* the new self._iter.
GetNextChar(string, it) ==
    IF it = Len(string) THEN [ch |-> None, iter |-> it]
    ELSE [ch |-> string[it + 1], iter |-> it + 1]

\* _decode(hex_num): the character, or the exception raised.  int's
\* ValueError becomes UriSyntaxError; chr's ValueError (a negative value) is
\* raised outside the try block.
Decode(hex_num) ==
    LET n == IntBase16(hex_num)
    IN  IF ~n.ok THEN [ch |-> None, exc |-> UriSyntaxError]
        ELSE IF n.value < 0 THEN [ch |-> None, exc |-> ValueError]
        ELSE [ch |-> n.value, exc |-> NoException]

\* The fields of the parser as one record; exc is the exception in flight.
Fields(p, f, q, qp, it, e) ==
    [path |-> p, fragment |-> f, query |-> q, query_params |-> qp,
     iter |-> it, exc |-> e]

\* s.rsplit(c, 1)
Split1Last(s, c) ==
    IF Find(s, c) = -1 THEN <<s>>
    ELSE LET k == CHOOSE i \in 1..Len(s) :
                      s[i] = c /\ \A j \in (i + 1)..Len(s) : s[j] # c
         IN  <<SubSeq(s, 1, k - 1), SubSeq(s, k + 1, Len(s))>>

\* Mutation of SplitUri: the fragment is cut at the last '#'
\* (rsplit for split).
SplitUriLastHash(uri, self) ==
    IF Find(uri, QMARK) # -1
    THEN IF Find(uri, HASH) # -1
         THEN IF Find(uri, QMARK) > Find(uri, HASH)
              THEN [self EXCEPT !.exc = UriSyntaxError]
              ELSE LET tokens == Split1(uri, QMARK)
                       rest == Split1Last(tokens[2], HASH)
                   IN  [self EXCEPT !.path = tokens[1],
                                    !.query = rest[1],
                                    !.fragment = rest[2]]
         ELSE LET tokens == Split1(uri, QMARK)
              IN  [self EXCEPT !.path = tokens[1], !.query = tokens[2]]
    ELSE IF Find(uri, HASH) # -1
         THEN LET tokens == Split1Last(uri, HASH)
              IN  [self EXCEPT !.path = tokens[1], !.fragment = tokens[2]]
         ELSE [self EXCEPT !.path = uri]

\* _split_uri
SplitUri(uri, self) ==
    IF Find(uri, QMARK) # -1
    THEN IF Find(uri, HASH) # -1
         THEN IF Find(uri, QMARK) > Find(uri, HASH)
              THEN [self EXCEPT !.exc = UriSyntaxError]
              ELSE LET tokens == Split1(uri, QMARK)
                       rest == Split1(tokens[2], HASH)
                   IN  [self EXCEPT !.path = tokens[1],
                                    !.query = rest[1],
                                    !.fragment = rest[2]]
         ELSE LET tokens == Split1(uri, QMARK)
              IN  [self EXCEPT !.path = tokens[1], !.query = tokens[2]]
    ELSE IF Find(uri, HASH) # -1
         THEN LET tokens == Split1(uri, HASH)
              IN  [self EXCEPT !.path = tokens[1], !.fragment = tokens[2]]
         ELSE [self EXCEPT !.path = uri]

\* The loop of _parse_path from self._iter = it with decoded_path = out.
RECURSIVE ParsePathLoop(_, _, _)
ParsePathLoop(s, it, out) ==
    LET n == GetNextChar(s, it)
    IN  IF n.ch = None THEN [out |-> out, iter |-> n.iter, exc |-> NoException]
        ELSE IF n.ch = PERCENT
        THEN LET first_hex_digit == GetNextChar(s, n.iter)
                 second_hex_digit == GetNextChar(s, first_hex_digit.iter)
                 d == Decode(<<first_hex_digit.ch, second_hex_digit.ch>>)
             IN  IF first_hex_digit.ch = None \/ second_hex_digit.ch = None
                 THEN [out |-> out, iter |-> second_hex_digit.iter,
                       exc |-> UriSyntaxError]
                 ELSE IF d.exc # NoException
                 THEN [out |-> out, iter |-> second_hex_digit.iter,
                       exc |-> d.exc]
                 ELSE ParsePathLoop(s, second_hex_digit.iter, Append(out, d.ch))
        ELSE IF n.ch \in reserved_chars /\ n.ch \notin {SLASH, COLON}
        THEN [out |-> out, iter |-> n.iter, exc |-> UriSyntaxError]
        ELSE ParsePathLoop(s, n.iter, Append(out, n.ch))

\* _parse_path
ParsePath(self) ==
    LET r == ParsePathLoop(self.path, 0, <<>>)
    IN  IF r.exc # NoException
        THEN [self EXCEPT !.iter = r.iter, !.exc = r.exc]
        ELSE [self EXCEPT !.iter = r.iter, !.path = r.out]

\* Mutation of ParseFragmentLoop: the fragment checked with the path's
\* whitelist ('/' and ':' let through).
FragmentLoopWithPathWhitelist(s, it, out) == ParsePathLoop(s, it, out)

\* The loop of _parse_fragment.
RECURSIVE ParseFragmentLoop(_, _, _)
ParseFragmentLoop(s, it, out) ==
    LET n == GetNextChar(s, it)
    IN  IF n.ch = None THEN [out |-> out, iter |-> n.iter, exc |-> NoException]
        ELSE IF n.ch = PERCENT
        THEN LET first_hex_digit == GetNextChar(s, n.iter)
                 second_hex_digit == GetNextChar(s, first_hex_digit.iter)
                 d == Decode(<<first_hex_digit.ch, second_hex_digit.ch>>)
             IN  IF first_hex_digit.ch = None \/ second_hex_digit.ch = None
                 THEN [out |-> out, iter |-> second_hex_digit.iter,
                       exc |-> UriSyntaxError]
                 ELSE IF d.exc # NoException
                 THEN [out |-> out, iter |-> second_hex_digit.iter,
                       exc |-> d.exc]
                 ELSE ParseFragmentLoop(s, second_hex_digit.iter,
                                        Append(out, d.ch))
        ELSE IF n.ch \in reserved_chars
        THEN [out |-> out, iter |-> n.iter, exc |-> UriSyntaxError]
        ELSE ParseFragmentLoop(s, n.iter, Append(out, n.ch))

\* _parse_fragment
ParseFragment(self) ==
    LET r == ParseFragmentLoop(self.fragment, 0, <<>>)
    IN  IF r.exc # NoException
        THEN [self EXCEPT !.iter = r.iter, !.exc = r.exc]
        ELSE [self EXCEPT !.iter = r.iter, !.fragment = r.out]

\* The loop of _decode_all.
RECURSIVE DecodeAllLoop(_, _, _)
DecodeAllLoop(s, it, out) ==
    LET n == GetNextChar(s, it)
    IN  IF n.ch = None THEN [out |-> out, iter |-> n.iter, exc |-> NoException]
        ELSE IF n.ch = PERCENT
        THEN LET first_hex_digit == GetNextChar(s, n.iter)
                 second_hex_digit == GetNextChar(s, first_hex_digit.iter)
                 d == Decode(<<first_hex_digit.ch, second_hex_digit.ch>>)
             IN  IF first_hex_digit.ch = None \/ second_hex_digit.ch = None
                 THEN [out |-> out, iter |-> second_hex_digit.iter,
                       exc |-> UriSyntaxError]
                 ELSE IF d.exc # NoException
                 THEN [out |-> out, iter |-> second_hex_digit.iter,
                       exc |-> d.exc]
                 ELSE DecodeAllLoop(s, second_hex_digit.iter, Append(out, d.ch))
        ELSE DecodeAllLoop(s, n.iter, Append(out, n.ch))

\* _decode_all(string): the decoded string, the final self._iter and the
\* exception raised.
DecodeAll(string) == DecodeAllLoop(string, 0, <<>>)

\* The token loop of _parse_query from token number i.
RECURSIVE ParseQueryTokens(_, _, _)
ParseQueryTokens(tokens, i, self) ==
    IF i > Len(tokens) THEN self
    ELSE IF Count(tokens[i], EQUALS) # 1
    THEN [self EXCEPT !.exc = UriSyntaxError]
    ELSE LET kv == Split1(tokens[i], EQUALS)
             param == DecodeAll(kv[1])
             value == DecodeAll(kv[2])
         IN  IF param.exc # NoException
             THEN [self EXCEPT !.iter = param.iter, !.exc = param.exc]
             ELSE IF value.exc # NoException
             THEN [self EXCEPT !.iter = value.iter, !.exc = value.exc]
             ELSE ParseQueryTokens(tokens, i + 1,
                    [self EXCEPT !.iter = value.iter,
                                 !.query_params =
                                    DictSet(@, param.out, value.out)])

\* _parse_query
ParseQuery(self) ==
    IF self.query = <<>> THEN self
    ELSE IF \E i \in 1..Len(self.query) :
                /\ self.query[i] \in reserved_chars
                /\ self.query[i] \notin {AMP, EQUALS}
    THEN [self EXCEPT !.exc = UriSyntaxError]
    ELSE ParseQueryTokens(Split(self.query, AMP), 1, self)

\* parse(): the fields after each stage that ran, in order (_split_uri,
\* _parse_path, _parse_fragment, _parse_query); an exception ends the call,
\* so the last record holds the fields and the exception parse() ends with.
ParseStages(uri, self) ==
    LET s1 == SplitUri(uri, [self EXCEPT !.exc = NoException])
        s2 == ParsePath(s1)
        s3 == ParseFragment(s2)
        s4 == ParseQuery(s3)
    IN  IF s1.exc # NoException THEN <<s1>>
        ELSE IF s2.exc # NoException THEN <<s1, s2>>
        ELSE IF s3.exc # NoException THEN <<s1, s2, s3>>
        ELSE <<s1, s2, s3, s4>>

\* What the caller has in hand after a call: the exception, and what
\* get_path(), get_fragment() and get_query_params() return.
Getters(self) ==
    [raised |-> self.exc, path |-> self.path, fragment |-> self.fragment,
     query_params |-> self.query_params]

---------------------------------------------------------------------------
(* Inputs *)

MaxLen == 4
MaxTokens == 3
MaxCalls == 2

\* The characters the raw URIs are drawn from: the two delimiters, the
\* reserved characters some component lets through and one ('@') that none
\* does, the escape introducer, the digits '2' and '5' ("%25" is '%') and the
\* two signs int() accepts in front of a digit.
Alphabet ==
    {SLASH, COLON, QMARK, HASH, AMP, EQUALS, AT, PERCENT, PLUS, MINUS, 50, 53}

StringsUpTo(n) == UNION {[1..k -> Alphabet] : k \in 0..n}

\* "/src/dict1/dict2/file?param1=value&param2=value#fragment"
DocExample ==
    <<47, 115, 114, 99, 47, 100, 105, 99, 116, 49, 47, 100, 105, 99, 116,
      50, 47, 102, 105, 108, 101, 63, 112, 97, 114, 97, 109, 49, 61, 118,
      97, 108, 117, 101, 38, 112, 97, 114, 97, 109, 50, 61, 118, 97, 108,
      117, 101, 35, 102, 114, 97, 103, 109, 101, 110, 116>>

\* "/a%2Fb?x=%2B1#frag%20ment"
EscapedExample ==
    <<47, 97, 37, 50, 70, 98, 63, 120, 61, 37, 50, 66, 49, 35, 102, 114,
      97, 103, 37, 50, 48, 109, 101, 110, 116>>

\* "?a=1&%61=2"
RepeatedKeyExample == <<63, 97, 61, 49, 38, 37, 54, 49, 61, 50>>

\* "%2541"
PercentExample == <<37, 50, 53, 52, 49>>

Samples == {DocExample, EscapedExample, RepeatedKeyExample, PercentExample}

\* The hexadecimal digit of n in 0..15, in upper or in lower case.
HexChar(n, upper) ==
    IF n < 10 THEN 48 + n ELSE IF upper THEN 55 + n ELSE 87 + n

\* "%XX" for the byte v.
Escape(v, upper) == <<PERCENT, HexChar(v \div 16, upper), HexChar(v % 16, upper)>>

\* One escape, followed or not by "41", as the path, the fragment, a query
\* key or a query value.
RoundTripSuffixes == {<<>>, <<52, 49>>}

RoundTripInputs ==
    UNION { LET e == Escape(v, upper) \o suffix
            IN  { e,
                  <<HASH>> \o e,
                  <<QMARK>> \o e \o <<EQUALS, 118>>,
                  <<QMARK, 107, EQUALS>> \o e }
            : v \in 0..255, upper \in BOOLEAN, suffix \in RoundTripSuffixes }

\* Query tokens: key=value with the keys a, %61 (an escaped a), b and %-2 and
\* the values 1, 2 and %32 (an escaped 2), and three malformed tokens.
QueryKeys == {<<97>>, <<PERCENT, 54, 49>>, <<98>>, <<PERCENT, MINUS, 50>>}

QueryValues == {<<49>>, <<50>>, <<PERCENT, 51, 50>>}

QueryTokens ==
    {k \o <<EQUALS>> \o v : k \in QueryKeys, v \in QueryValues}
    \cup {<<>>, <<97>>, <<97, EQUALS, 49, EQUALS, 50>>}

RECURSIVE Join(_, _)
Join(tokens, sep) ==
    IF Len(tokens) = 0 THEN <<>>
    ELSE IF Len(tokens) = 1 THEN tokens[1]
    ELSE tokens[1] \o <<sep>> \o Join(Tail(tokens), sep)

QueryInputs ==
    { <<SLASH, QMARK>> \o Join(ts, AMP) :
        ts \in UNION {[1..n -> QueryTokens] : n \in 0..MaxTokens} }

\* __init__
Construct(uri) ==
    /\ uri_content = uri
    /\ path = <<>>
    /\ fragment = <<>>
    /\ query = <<>>
    /\ query_params = <<>>
    /\ iter = 0
    /\ calls = 0
    /\ raised = NoException
    /\ stages = <<>>
    /\ observed = <<>>

Init == \E uri \in StringsUpTo(MaxLen) \cup Samples : Construct(uri)

InitRoundTrip == \E uri \in RoundTripInputs : Construct(uri)

InitQuery == \E uri \in QueryInputs : Construct(uri)

\* parse() ends, by a return or by an exception, after the stages ran, the
\* last of them leaving the fields self; the caller then reads the getters.
Leave(ran, self) ==
    /\ path' = self.path
    /\ fragment' = self.fragment
    /\ query' = self.query
    /\ query_params' = self.query_params
    /\ iter' = self.iter
    /\ raised' = self.exc
    /\ stages' = ran
    /\ observed' = Append(observed, Getters(self))

RunStages(ran) == Leave(ran, ran[Len(ran)])

\* parse()
Parse ==
    /\ calls < MaxCalls
    /\ RunStages(ParseStages(uri_content,
                    Fields(path, fragment, query, query_params, iter,
                           NoException)))
    /\ calls' = calls + 1
    /\ UNCHANGED uri_content

Next == Parse

Spec == Init /\ [][Next]_vars

SpecRoundTrip == InitRoundTrip /\ [][Next]_vars

SpecQuery == InitQuery /\ [][Next]_vars

---------------------------------------------------------------------------
(* Vocabulary of the properties, stated on the raw text and not through the
   parser's own operators. *)

\* The 1-based position of the first c in s, 0 when there is none.
FirstIndex(s, c) ==
    IF \E i \in 1..Len(s) : s[i] = c
    THEN CHOOSE i \in 1..Len(s) : s[i] = c /\ \A j \in 1..(i - 1) : s[j] # c
    ELSE 0

IsHex(c) == c \in (48..57) \cup (65..70) \cup (97..102)

\* Position i of s holds a '%' that a left-to-right scan reads as an escape
\* introducer: it is not one of the two characters after an earlier one.
RECURSIVE IsIntroducer(_, _)
IsIntroducer(s, i) ==
    /\ s[i] = PERCENT
    /\ ~(i > 1 /\ IsIntroducer(s, i - 1))
    /\ ~(i > 2 /\ IsIntroducer(s, i - 2))

InEscape(s, i) ==
    \/ IsIntroducer(s, i)
    \/ i > 1 /\ IsIntroducer(s, i - 1)
    \/ i > 2 /\ IsIntroducer(s, i - 2)

EscapesBefore(s, i) == Cardinality({j \in 1..(i - 1) : IsIntroducer(s, j)})

\* An escape introducer followed by two characters that are not both
\* hexadecimal digits.
HasInvalidHexPair(s) ==
    \E i \in 1..(Len(s) - 2) :
        IsIntroducer(s, i) /\ ~(IsHex(s[i + 1]) /\ IsHex(s[i + 2]))

\* A '%' with fewer than two characters after it.
HasTruncatedEscape(s) ==
    \E i \in 1..Len(s) : s[i] = PERCENT /\ i > Len(s) - 2

\* The raw substrings the split stage of the last call produced.
RawPath == stages[1].path
RawFragment == stages[1].fragment
RawQuery == stages[1].query
SplitDone == calls >= 1 /\ stages[1].exc = NoException

RawTokens == IF RawQuery = <<>> THEN <<>> ELSE Split(RawQuery, AMP)

\* The raw keys and values of the tokens that hold exactly one '='.
RawKeysAndValues ==
    UNION { {Split1(RawTokens[i], EQUALS)[1], Split1(RawTokens[i], EQUALS)[2]} :
            i \in {j \in 1..Len(RawTokens) : Count(RawTokens[j], EQUALS) = 1} }

\* The substrings that are percent-decoded: path, fragment, keys and values.
RawParts ==
    IF SplitDone THEN {RawPath, RawFragment} \cup RawKeysAndValues ELSE {}

---------------------------------------------------------------------------
(* Properties *)

\* C1: the split stage uses only the first '?' and the first '#'.  When both
\* occur and the first '?' is after the first '#', parse() raises
\* UriSyntaxError in the split stage.  Otherwise the raw path is the text
\* before the first delimiter, the raw query the text between the first '?'
\* and the first '#' (or the end), the raw fragment the text after the first
\* '#'; a component whose delimiter is absent is empty.
C1_SplitUsesFirstDelimiters ==
    calls >= 1 =>
        LET u == uri_content
            q == FirstIndex(u, QMARK)
            h == FirstIndex(u, HASH)
            s == stages[1]
        IN  IF q > 0 /\ h > 0
            THEN IF q > h
                 THEN raised = UriSyntaxError /\ Len(stages) = 1
                 ELSE /\ s.exc = NoException
                      /\ s.path = SubSeq(u, 1, q - 1)
                      /\ s.query = SubSeq(u, q + 1, h - 1)
                      /\ s.fragment = SubSeq(u, h + 1, Len(u))
            ELSE IF q > 0
            THEN /\ s.exc = NoException
                 /\ s.path = SubSeq(u, 1, q - 1)
                 /\ s.query = SubSeq(u, q + 1, Len(u))
                 /\ s.fragment = <<>>
            ELSE IF h > 0
            THEN /\ s.exc = NoException
                 /\ s.path = SubSeq(u, 1, h - 1)
                 /\ s.fragment = SubSeq(u, h + 1, Len(u))
                 /\ s.query = <<>>
            ELSE /\ s.exc = NoException
                 /\ s.path = u
                 /\ s.query = <<>>
                 /\ s.fragment = <<>>

\* A URI with a second '?' and a second '#' has been split: the second '?'
\* is in the raw query and the second '#' in the raw fragment.
C1_Witness ==
    /\ SplitDone
    /\ Count(uri_content, QMARK) > 1
    /\ Count(uri_content, HASH) > 1
    /\ Count(RawQuery, QMARK) = Count(uri_content, QMARK) - 1
    /\ Count(RawFragment, HASH) = Count(uri_content, HASH) - 1

\* C2: an escape introducer followed by two characters that are not both
\* hexadecimal digits, in the path, the fragment, a query key or a query
\* value, makes parse() raise UriSyntaxError.
C2_InvalidHexPairFails ==
    (calls >= 1 /\ \E s \in RawParts : HasInvalidHexPair(s))
        => raised = UriSyntaxError

\* C3: the only exception that leaves parse() is UriSyntaxError.
C3_SingleErrorKind == raised \in {NoException, UriSyntaxError}

\* C4: after a failed parse() the getters return nothing the stages that ran
\* produced: the path, the fragment and the query parameters are as
\* constructed.
C4_NoPartialResults ==
    (calls >= 1 /\ raised # NoException)
        => path = <<>> /\ fragment = <<>> /\ query_params = <<>>

\* C5: in the raw path a literal '/' or ':' outside a percent-escape is kept,
\* at its place, in the decoded path and does not fail the path stage, and
\* any other reserved character makes parse() fail; in the raw fragment
\* every reserved character makes parse() fail; in the raw query every
\* reserved character other than '&' and '=' makes parse() fail.
C5_ReservedCharacterWhitelists ==
    SplitDone =>
        /\ (\E i \in 1..Len(RawPath) :
                RawPath[i] \in reserved_chars \ {SLASH, COLON})
            => raised # NoException
        /\ (\E i \in 1..Len(RawFragment) : RawFragment[i] \in reserved_chars)
            => raised # NoException
        /\ (\E i \in 1..Len(RawQuery) :
                RawQuery[i] \in reserved_chars \ {AMP, EQUALS})
            => raised # NoException
        /\ (Len(stages) >= 2 /\ stages[2].exc = NoException)
            => \A i \in 1..Len(RawPath) :
                  (RawPath[i] \in {SLASH, COLON} /\ ~InEscape(RawPath, i))
                  => /\ i - 2 * EscapesBefore(RawPath, i)
                            \in 1..Len(stages[2].path)
                     /\ stages[2].path[i - 2 * EscapesBefore(RawPath, i)]
                            = RawPath[i]
        /\ (\A i \in 1..Len(RawPath) :
                RawPath[i] \notin (reserved_chars \ {SLASH, COLON})
                                    \cup {PERCENT})
            => /\ Len(stages) >= 2
               /\ stages[2].exc = NoException
               /\ stages[2].path = RawPath

\* A successful parse of a path that holds an escape and, after it, a ':'
\* that the decoded path keeps two places earlier.
C5_Witness ==
    /\ SplitDone
    /\ raised = NoException
    /\ \E i \in 1..Len(RawPath) :
          /\ RawPath[i] = COLON
          /\ EscapesBefore(RawPath, i) = 1
          /\ path[i - 2] = COLON

\* C6: a '%' followed by fewer than two characters before the end of the raw
\* path, the raw fragment, a raw query key or a raw query value makes
\* parse() raise UriSyntaxError.
C6_TruncatedEscapeFails ==
    (calls >= 1 /\ \E s \in RawParts : HasTruncatedEscape(s))
        => raised = UriSyntaxError

\* C7: "%XX" for a byte v in 0..255, in upper or lower case hexadecimal, in
\* the path, the fragment, a query key or a query value, decodes to the one
\* character with code point v, and the text after it is not decoded again
\* ("%2541" gives "%41").
C7_PercentRoundTrip ==
    calls >= 1 =>
        \A v \in 0..255, upper \in BOOLEAN, suffix \in RoundTripSuffixes :
            LET e == Escape(v, upper) \o suffix
                d == <<v>> \o suffix
            IN  /\ uri_content = e => raised = NoException /\ path = d
                /\ uri_content = <<HASH>> \o e
                    => raised = NoException /\ fragment = d
                /\ uri_content = <<QMARK>> \o e \o <<EQUALS, 118>>
                    => /\ raised = NoException
                       /\ query_params = << <<d, <<118>>>> >>
                /\ uri_content = <<QMARK, 107, EQUALS>> \o e
                    => /\ raised = NoException
                       /\ query_params = << <<<<107>>, d>> >>

\* "%2541" has been parsed to the path "%41".
C7_Witness ==
    /\ calls >= 1
    /\ uri_content = PercentExample
    /\ path = <<PERCENT, 52, 49>>

\* C8: an empty raw query gives an empty mapping and no error; a raw query
\* with a token that does not hold exactly one '=' makes parse() raise
\* UriSyntaxError, and parse() succeeds only when every token holds exactly
\* one '='.
C8_QueryTokenRule ==
    SplitDone =>
        /\ (RawQuery = <<>> /\ Len(stages) = 4)
            => raised = NoException /\ query_params = <<>>
        /\ (\E i \in 1..Len(RawTokens) : Count(RawTokens[i], EQUALS) # 1)
            => raised = UriSyntaxError
        /\ raised = NoException
            => \A i \in 1..Len(RawTokens) : Count(RawTokens[i], EQUALS) = 1

\* The decoded key and value of raw token i.
TokenKey(i) == DecodeAll(Split1(RawTokens[i], EQUALS)[1]).out
TokenValue(i) == DecodeAll(Split1(RawTokens[i], EQUALS)[2]).out
FirstToken(k) ==
    CHOOSE i \in 1..Len(RawTokens) :
        TokenKey(i) = k /\ \A j \in 1..(i - 1) : TokenKey(j) # k
LastToken(k) ==
    CHOOSE i \in 1..Len(RawTokens) :
        TokenKey(i) = k /\ \A j \in (i + 1)..Len(RawTokens) : TokenKey(j) # k

\* C9: after a successful parse() the query parameters hold exactly one
\* entry per distinct decoded key, its value is the decoded value of the last
\* token with that key, and the entries are in the order of each key's
\* first token.
C9_QueryParamsLastWinsFirstOrder ==
    (calls >= 1 /\ raised = NoException) =>
        /\ \A i \in 1..Len(RawTokens) :
              \E j \in 1..Len(query_params) : query_params[j][1] = TokenKey(i)
        /\ \A j \in 1..Len(query_params) :
              \E i \in 1..Len(RawTokens) : TokenKey(i) = query_params[j][1]
        /\ \A j1, j2 \in 1..Len(query_params) :
              query_params[j1][1] = query_params[j2][1] => j1 = j2
        /\ \A j \in 1..Len(query_params) :
              query_params[j][2] = TokenValue(LastToken(query_params[j][1]))
        /\ \A j1, j2 \in 1..Len(query_params) :
              j1 < j2 => FirstToken(query_params[j1][1])
                            < FirstToken(query_params[j2][1])

\* "a=1&b=1&%61=%32" has been parsed to a -> 2, b -> 1.
C9_Witness ==
    /\ calls >= 1
    /\ raised = NoException
    /\ RawQuery = <<97, EQUALS, 49, AMP, 98, EQUALS, 49, AMP,
                    PERCENT, 54, 49, EQUALS, PERCENT, 51, 50>>
    /\ query_params = << <<<<97>>, <<50>>>>, <<<<98>>, <<49>>>> >>

\* C10: a later parse() on the same instance repeats the first call: after
\* a success it succeeds and the getters return what they returned after
\* the first call; after a failure it fails.
C10_SecondParseRepeatsFirst ==
    \A i \in 2..Len(observed) :
        IF observed[1].raised = NoException
        THEN observed[i] = observed[1]
        ELSE observed[i].raised # NoException

\* The escaped example has been parsed twice.
C10_Witness ==
    /\ calls >= 2
    /\ uri_content = EscapedExample
    /\ raised = NoException
    /\ path = <<SLASH, 97, SLASH, 98>>
    /\ query_params = << <<<<120>>, <<PLUS, 49>>>> >>

====
